---- MODULE Spec2Model ----
(***************************************************************************)
(* Model of the plant-disease web application: the Flask request handlers  *)
(* of app.py and the detector of plant_disease_detector.py.                *)
(*                                                                         *)
(* Strings that the code inspects character by character (upload file      *)
(* names) are sequences of one-character strings.  None is the Python      *)
(* None / a missing value.  Probabilities are fixed-point, in thousandths. *)
(***************************************************************************)
EXTENDS Integers, Sequences, FiniteSets, TLC

None == "None"

\* ---------------------------------------------------------------- bounds
\* uuid4() values handed out (upload file names and chat session ids)
MaxUuid == 3
\* datetime.now() readings are drawn from 0..MaxTime
MaxTime == 1
\* number of output scores of the classification model
NumLogits == 2
\* each output score is drawn from 0..MaxLogit
MaxLogit == 0
\* rows returned by the listing queries; stands for .limit(20), scaled down
LIMIT == 2
\* capacity of the treatment cache; stands for lru_cache(maxsize=100), scaled down
MAXSIZE == 2
\* HTTP clients (each with its own signed session cookie)
NumClients == 2
\* chat messages that reach the chat assistant
MaxChats == 3
\* threads that may be inside detect_disease at the same time
NumThreads == 3

\* ---------------------------------------------------------------- state
VARIABLES
    files,      \* upload directory: the set of file paths that exist
    rows,       \* PlantDiseaseResult table, in insertion order (id = position)
    processor,  \* plant_disease_detector.processor: FALSE is None
    model,      \* plant_disease_detector.model: FALSE is None
    loads,      \* completed executions of the load block of load_model
    uuids,      \* uuid4() values generated so far
    cache,      \* lru_cache of get_cached_treatment, least recently used first
    calls,      \* per label: invocations of get_treatment_recommendation
    lastText,   \* per label: text of the latest 200 response, or None
    othersSince,\* per label: other labels requested since its latest 200
    session,    \* per client: the session_id held in the Flask session, or None
    chatLog,    \* arguments of the chat_with_gemini calls, in order
    pc,         \* per thread: position inside detect_disease
    resp        \* the response (and call observations) of the latest request

vars == <<files, rows, processor, model, loads, uuids, cache, calls, lastText,
          othersSince, session, chatLog, pc, resp>>

uploadVars == <<files, rows, processor, model, loads, uuids>>
treatVars == <<cache, calls, lastText, othersSince>>
chatVars == <<session, chatLog>>

\* ---------------------------------------------------------------- upload
ALLOWED_EXTENSIONS ==
    { <<"p","n","g">>, <<"j","p","g">>, <<"j","p","e","g">>, <<"g","i","f">> }

\* str.lower() on the characters that occur in the file names below
LowerChar(c) ==
    CASE c = "P" -> "p" [] c = "N" -> "n" [] c = "G" -> "g"
      [] c = "J" -> "j" [] c = "E" -> "e" [] c = "I" -> "i"
      [] c = "F" -> "f" [] c = "T" -> "t" [] c = "X" -> "x"
      [] OTHER -> c

Lower(s) == [i \in 1..Len(s) |-> LowerChar(s[i])]

HasDot(s) == \E i \in 1..Len(s) : s[i] = "."

\* filename.rsplit('.', 1)[1]: the text after the last '.'
RSplitExt(s) ==
    LET last == CHOOSE i \in 1..Len(s) :
                    s[i] = "." /\ \A j \in (i+1)..Len(s) : s[j] # "."
    IN  SubSeq(s, last + 1, Len(s))

\* filename.split('.')[1]: the text between the first '.' and the next
SplitFirstExt(s) ==
    LET first == CHOOSE i \in 1..Len(s) :
                     s[i] = "." /\ \A j \in 1..(i-1) : s[j] # "."
        rest == SubSeq(s, first + 1, Len(s))
        stop == IF HasDot(rest)
                THEN (CHOOSE i \in 1..Len(rest) :
                         rest[i] = "." /\ \A j \in 1..(i-1) : rest[j] # ".") - 1
                ELSE Len(rest)
    IN  SubSeq(rest, 1, stop)

allowed_file_first_dot(filename) ==
    HasDot(filename) /\ Lower(SplitFirstExt(filename)) \in ALLOWED_EXTENSIONS

allowed_file(filename) ==
    HasDot(filename) /\ Lower(RSplitExt(filename)) \in ALLOWED_EXTENSIONS

\* file names sent by clients
Filenames ==
    { <<>>,
      <<"a">>,
      <<"p","n","g">>,
      <<"a",".">>,
      <<"a",".","p","n","g">>,
      <<"a",".","P","N","G">>,
      <<"a",".","J","p","g">>,
      <<"a",".","j","p","e","g">>,
      <<"a",".","t","x","t">>,
      <<"a",".","p","n","g",".","t","x","t">>,
      <<"a",".","t","x","t",".","p","n","g">>,
      <<".","g","i","f">>,
      <<"a",".","p","n","g","x">> }

\* str(uuid.uuid4()): the n-th value generated, all distinct
UuidStr ==
    << "uuid-1", "uuid-2", "uuid-3", "uuid-4", "uuid-5", "uuid-6" >>

Uuid(n) == UuidStr[n]

\* The class names of the detector
CLASSES ==
    << "Apple_Apple_scab", "Apple_Black_rot", "Apple_Cedar_apple_rust",
       "Apple_Healthy", "Background_without_leaves", "Blueberry_Healthy",
       "Cherry_Powdery_mildew", "Cherry_Healthy", "Corn_Cercospora_leaf_spot",
       "Corn_Common_rust", "Corn_Northern_Leaf_Blight", "Corn_Healthy",
       "Grape_Black_rot", "Grape_Esca", "Grape_Leaf_blight", "Grape_Healthy",
       "Orange_Haunglongbing", "Peach_Bacterial_spot", "Peach_Healthy",
       "Pepper_Bacterial_spot", "Pepper_Healthy", "Potato_Early_blight",
       "Potato_Late_blight", "Potato_Healthy", "Raspberry_Healthy",
       "Soybean_Healthy", "Squash_Powdery_mildew", "Strawberry_Leaf_scorch",
       "Strawberry_Healthy", "Tomato_Bacterial_spot", "Tomato_Early_blight",
       "Tomato_Late_blight", "Tomato_Leaf_Mold", "Tomato_Septoria_leaf_spot",
       "Tomato_Spider_mites", "Tomato_Target_Spot", "Tomato_Mosaic_virus",
       "Tomato_Yellow_Leaf_Curl_Virus", "Tomato_Healthy" >>

Vocabulary == { CLASSES[i] : i \in 1..Len(CLASSES) }

\* outputs.logits of one image: one score per class index 0..NumLogits-1
Logits == [0..(NumLogits - 1) -> 0..MaxLogit]

RECURSIVE Pow2(_)
Pow2(n) == IF n = 0 THEN 1 ELSE 2 * Pow2(n - 1)

RECURSIVE SumExp(_, _)
SumExp(logits, n) ==
    IF n < 0 THEN 0 ELSE Pow2(logits[n]) + SumExp(logits, n - 1)

\* softmax(logits)[i], in thousandths (base 2 in place of base e)
Softmax(logits, i) ==
    (1000 * Pow2(logits[i])) \div SumExp(logits, NumLogits - 1)

\* torch.argmax: the first index that holds the greatest probability
ArgMax(logits) ==
    CHOOSE i \in DOMAIN logits :
        /\ \A j \in DOMAIN logits : Softmax(logits, j) <= Softmax(logits, i)
        /\ \A j \in DOMAIN logits :
              Softmax(logits, j) = Softmax(logits, i) => i <= j

\* config.json of the model directory, as read by detect_disease: the id2label
\* object (keys are the decimal strings of the class indices, written here as
\* the indices), complete, or absent from the file
Id2LabelFull == [i \in 0..(NumLogits - 1) |-> CLASSES[i + 1]]
Id2LabelEmpty == [i \in {} |-> None]
Configs == { Id2LabelFull, Id2LabelEmpty }

\* f"Class_{top_prediction}"
ClassStr == << "Class_0", "Class_1", "Class_2", "Class_3" >>

\* id2label.get(str(top_prediction), f"Class_{top_prediction}")
ClassName(id2label, top) ==
    IF top \in DOMAIN id2label THEN id2label[top] ELSE ClassStr[top + 1]

\* the except branch of upload_image: remove the saved file if it exists
CleanupKeep(fs, file_path) == fs

Cleanup(fs, file_path) == fs \ {file_path}

\* the places where the try block of upload_image can raise
FailPoints ==
    { "save", "load_processor", "load_model", "preprocess", "config",
      "commit", "respond", "none" }

\* the failures that happen before detect_disease has returned
EarlyFailPoints ==
    { "save", "load_processor", "load_model", "preprocess", "config" }

\* the values an input can take in a request that fails at failAt: a request
\* that fails before the input is read takes one, arbitrary, value
InputsAt(failAt, values) ==
    IF failAt \in EarlyFailPoints THEN { CHOOSE v \in values : TRUE }
    ELSE values

NeedsLoad == ~processor \/ ~model

\* POST /api/upload
UploadImage ==
    /\ UNCHANGED <<treatVars, chatVars, pc>>
    /\ \E hasFile \in BOOLEAN, filename \in Filenames :
        \/ /\ ~hasFile
           /\ resp' = [route |-> "upload", status |-> 400,
                       error |-> "No file part", detector |-> FALSE,
                       hasFile |-> FALSE, filename |-> <<>>]
           /\ UNCHANGED uploadVars
        \/ /\ hasFile /\ filename = <<>>
           /\ resp' = [route |-> "upload", status |-> 400,
                       error |-> "No selected file", detector |-> FALSE,
                       hasFile |-> TRUE, filename |-> filename]
           /\ UNCHANGED uploadVars
        \/ /\ hasFile /\ filename # <<>> /\ ~allowed_file(filename)
           /\ resp' = [route |-> "upload", status |-> 400,
                       error |-> "File type not allowed", detector |-> FALSE,
                       hasFile |-> TRUE, filename |-> filename]
           /\ UNCHANGED uploadVars
        \/ /\ hasFile /\ filename # <<>> /\ allowed_file(filename)
           /\ uuids < MaxUuid
           /\ uuids' = uuids + 1
           /\ \E failAt \in FailPoints :
              \E logits \in InputsAt(failAt, Logits),
                 id2label \in InputsAt(failAt, Configs),
                 now \in InputsAt(failAt, 0..MaxTime) :
                LET file_path == Uuid(uuids + 1)
                    saved == failAt # "save"
                    called == saved
                    loading == called /\ NeedsLoad
                    procLoaded == loading /\ failAt # "load_processor"
                    modelLoaded == procLoaded /\ failAt # "load_model"
                    top == ArgMax(logits)
                    prediction == ClassName(id2label, top)
                    confidence == Softmax(logits, top)
                    detected == failAt \notin EarlyFailPoints
                    committed == detected /\ failAt # "commit"
                    result == [id |-> Len(rows) + 1,
                               image_path |-> file_path,
                               prediction |-> prediction,
                               confidence |-> confidence,
                               timestamp |-> now]
                IN  /\ failAt \in {"load_processor", "load_model"} => NeedsLoad
                    /\ processor' = (processor \/ procLoaded)
                    /\ model' = (model \/ modelLoaded)
                    /\ loads' = IF modelLoaded THEN loads + 1 ELSE loads
                    /\ rows' = IF committed THEN Append(rows, result) ELSE rows
                    /\ IF failAt = "none"
                       THEN /\ files' = files \cup {file_path}
                            /\ resp' = [route |-> "upload", status |-> 200,
                                        id |-> result.id,
                                        image_path |-> file_path,
                                        prediction |-> prediction,
                                        confidence |-> confidence,
                                        timestamp |-> now,
                                        detector |-> TRUE,
                                        hasFile |-> TRUE,
                                        filename |-> filename]
                       ELSE /\ files' = Cleanup(IF saved
                                                THEN files \cup {file_path}
                                                ELSE files, file_path)
                            /\ resp' = [route |-> "upload", status |-> 500,
                                        raised |-> failAt,
                                        image_path |-> file_path,
                                        detector |-> called,
                                        hasFile |-> TRUE,
                                        filename |-> filename]

\* ---------------------------------------------------------------- queries
Range(s) == { s[i] : i \in 1..Len(s) }

RECURSIVE SelectAsc(_, _, _)
\* the same selection with the ordering reversed (order_by without desc)
SelectAsc(table, ids, k) ==
    IF k = 0 \/ ids = {} THEN { <<>> }
    ELSE UNION { { <<r>> \o s : s \in SelectAsc(table, ids \ {r}, k - 1) } :
                 r \in { x \in ids : \A y \in ids :
                            table[x].timestamp <= table[y].timestamp } }

RECURSIVE SelectDesc(_, _, _)
\* order_by(timestamp.desc()) then limit(k) over the rows ids of table: the
\* next row is one of the remaining rows of greatest timestamp (the database
\* breaks ties as it likes), k times or until no row remains; the result is
\* every sequence of row ids the database may answer
SelectDesc(table, ids, k) ==
    IF k = 0 \/ ids = {} THEN { <<>> }
    ELSE UNION { { <<r>> \o s : s \in SelectDesc(table, ids \ {r}, k - 1) } :
                 r \in { x \in ids : \A y \in ids :
                            table[y].timestamp <= table[x].timestamp } }

\* PlantDiseaseResult.query.order_by(...timestamp.desc()).limit(LIMIT).all()
LatestResults == SelectDesc(rows, 1..Len(rows), LIMIT)

\* GET /history
History ==
    /\ \E ids \in LatestResults :
          resp' = [route |-> "history", status |-> 200,
                   results |-> [i \in 1..Len(ids) |-> rows[ids[i]]]]
    /\ UNCHANGED <<uploadVars, treatVars, chatVars, pc>>

\* GET /api/results
GetResults ==
    /\ \E ids \in LatestResults :
          resp' = [route |-> "results", status |-> 200,
                   results |-> [i \in 1..Len(ids) |-> rows[ids[i]]]]
    /\ UNCHANGED <<uploadVars, treatVars, chatVars, pc>>

\* GET /api/result/<int:result_id>; get_or_404 raises NotFound, an Exception,
\* inside the try block of the handler
GetResult ==
    /\ \E result_id \in 0..(MaxUuid + 1) :
          IF result_id \in 1..Len(rows)
          THEN resp' = [route |-> "result", status |-> 200,
                        result_id |-> result_id, result |-> rows[result_id]]
          ELSE resp' = [route |-> "result", status |-> 500,
                        result_id |-> result_id, error |-> "404 Not Found"]
    /\ UNCHANGED <<uploadVars, treatVars, chatVars, pc>>

\* ---------------------------------------------------------------- JSON bodies
\* request.json: a JSON value as the Python object it parses to
JNull == [kind |-> "null"]
JObject(fields) == [kind |-> "object", val |-> fields]
JArray(items) == [kind |-> "array", val |-> items]
JString(str) == [kind |-> "string", val |-> str]
JNumber(n) == [kind |-> "number", val |-> n]

\* not data
Falsy(data) ==
    CASE data.kind = "null" -> TRUE
      [] data.kind = "object" -> DOMAIN data.val = {}
      [] data.kind = "array" -> data.val = <<>>
      [] data.kind = "string" -> data.val = ""
      [] data.kind = "number" -> data.val = 0

\* key in data: "yes", "no", or "TypeError" (a number is not iterable); the
\* strings used as bodies contain the key only when they equal it
KeyIn(key, data) ==
    CASE data.kind = "object" ->
            IF key \in DOMAIN data.val THEN "yes" ELSE "no"
      [] data.kind = "array" ->
            IF \E i \in 1..Len(data.val) : data.val[i] = key
            THEN "yes" ELSE "no"
      [] data.kind = "string" -> IF data.val = key THEN "yes" ELSE "no"
      [] OTHER -> "TypeError"

\* the field check of get_treatment and handle_chat, with what follows it:
\* "400", "TypeError" (from the in test or from data[key]), or "ok"
FieldCheck(data, key) ==
    IF Falsy(data) THEN "400"
    ELSE CASE KeyIn(key, data) = "TypeError" -> "TypeError"
           [] KeyIn(key, data) = "no" -> "400"
           [] OTHER -> IF data.kind = "object" THEN "ok" ELSE "TypeError"

\* ---------------------------------------------------------------- treatment
NumLabels == MAXSIZE + 1
Labels == { CLASSES[i] : i \in 1..NumLabels }
\* a disease value that cannot be a cache key (a JSON array)
Unhashable == "[unhashable]"
Texts == { "text-1", "text-2" }
\* invocations of the treatment service per label
MaxCalls == 2

TreatmentBodies ==
    { JNull, JObject([x \in {} |-> None]), JObject([other |-> "x"]),
      JArray(<<>>), JArray(<<"disease">>), JArray(<<"x">>),
      JString(""), JString("disease"), JString("x"),
      JNumber(0), JNumber(5) }
    \cup { JObject([disease |-> d]) : d \in Labels \cup {Unhashable} }

CacheKeys(c) == { c[i].key : i \in 1..Len(c) }

CacheIndex(c, k) == CHOOSE i \in 1..Len(c) : c[i].key = k

Remove(c, i) == SubSeq(c, 1, i - 1) \o SubSeq(c, i + 1, Len(c))

\* a hit that leaves the entry where it is (first-in first-out eviction)
CacheHitNoMove(c, k) == c

\* lru_cache hit: the entry becomes the most recently used
CacheHit(c, k) ==
    LET i == CacheIndex(c, k) IN Append(Remove(c, i), c[i])

\* lru_cache miss: the new entry is stored, the least recently used one is
\* dropped when the cache is full
CacheStore(c, k, v) ==
    LET full == Len(c) >= MAXSIZE
    IN  Append(IF full THEN Tail(c) ELSE c, [key |-> k, value |-> v])

\* bookkeeping of the requests that reach get_cached_treatment: the request
\* is for label req; ok and text tell whether and with what it was answered
NoteRequest(req, ok, text) ==
    /\ lastText' = [lastText EXCEPT ![req] = IF ok THEN text ELSE @]
    /\ othersSince' = [l \in Labels |->
                          IF l = req
                          THEN (IF ok THEN {} ELSE othersSince[l])
                          ELSE othersSince[l] \cup {req}]

\* POST /api/get_treatment
GetTreatment ==
    /\ UNCHANGED <<uploadVars, chatVars, pc>>
    /\ \E data \in TreatmentBodies :
        LET check == FieldCheck(data, "disease") IN
        \/ /\ check = "400"
           /\ resp' = [route |-> "get_treatment", status |-> 400,
                       data |-> data, service |-> FALSE]
           /\ UNCHANGED treatVars
        \/ /\ check = "TypeError"
           /\ resp' = [route |-> "get_treatment", status |-> 500,
                       data |-> data, service |-> FALSE]
           /\ UNCHANGED treatVars
        \/ /\ check = "ok" /\ data.val.disease = Unhashable
           /\ resp' = [route |-> "get_treatment", status |-> 500,
                       data |-> data, service |-> FALSE]
           /\ UNCHANGED treatVars
        \/ /\ check = "ok" /\ data.val.disease \in CacheKeys(cache)
           /\ LET d == data.val.disease
                  text == cache[CacheIndex(cache, d)].value
              IN  /\ cache' = CacheHit(cache, d)
                  /\ resp' = [route |-> "get_treatment", status |-> 200,
                              data |-> data, service |-> FALSE,
                              treatment |-> text]
                  /\ NoteRequest(d, TRUE, text)
                  /\ UNCHANGED calls
        \/ /\ check = "ok" /\ data.val.disease \in Labels \ CacheKeys(cache)
           /\ calls[data.val.disease] < MaxCalls
           /\ LET d == data.val.disease IN
              /\ calls' = [calls EXCEPT ![d] = @ + 1]
              /\ \/ \E text \in Texts :
                       /\ cache' = CacheStore(cache, d, text)
                       /\ resp' = [route |-> "get_treatment", status |-> 200,
                                   data |-> data, service |-> TRUE,
                                   treatment |-> text]
                       /\ NoteRequest(d, TRUE, text)
                 \/ /\ cache' = cache
                    /\ resp' = [route |-> "get_treatment", status |-> 500,
                                data |-> data, service |-> TRUE]
                    /\ NoteRequest(d, FALSE, None)

\* ---------------------------------------------------------------- chat
Clients == 1..NumClients
Messages == { "hello" }
\* session ids a client can put in a request: one it made up, or any id the
\* server has generated so far
ClientMade == "client-made"
KnownIds == { Uuid(n) : n \in 1..uuids } \cup { ClientMade }

ChatBodies ==
    { JNull, JObject([x \in {} |-> None]), JArray(<<"message">>),
      JString("message"), JNumber(5) }
    \cup { JObject([session_id |-> s]) : s \in KnownIds }
    \cup { JObject([message |-> m]) : m \in Messages }
    \cup { JObject([message |-> m, session_id |-> s]) :
              m \in Messages, s \in KnownIds }

\* the session id ignoring the one in the request body
SessionIdServerOnly(data, held) == held

\* lines 194-198: the id held in the Flask session, overridden by the body's
SessionIdFor(data, held) ==
    IF "session_id" \in DOMAIN data.val THEN data.val.session_id ELSE held

\* POST /api/chat from client c
HandleChat ==
    /\ UNCHANGED <<files, rows, processor, model, loads, treatVars, pc>>
    /\ \E c \in Clients, data \in ChatBodies :
        LET check == FieldCheck(data, "message") IN
        \/ /\ check = "400"
           /\ resp' = [route |-> "chat", status |-> 400, client |-> c,
                       data |-> data, assistant |-> FALSE]
           /\ UNCHANGED <<uuids, chatVars>>
        \/ /\ check = "TypeError"
           /\ resp' = [route |-> "chat", status |-> 500, client |-> c,
                       data |-> data, assistant |-> FALSE]
           /\ UNCHANGED <<uuids, chatVars>>
        \/ /\ check = "ok"
           /\ Len(chatLog) < MaxChats
           /\ session[c] = None => uuids < MaxUuid
           /\ LET fresh == session[c] = None
                  held == IF fresh THEN Uuid(uuids + 1) ELSE session[c]
                  session_id == SessionIdFor(data, held)
              IN  /\ uuids' = IF fresh THEN uuids + 1 ELSE uuids
                  /\ session' = [session EXCEPT ![c] = held]
                  /\ chatLog' = Append(chatLog,
                                  [session_id |-> session_id,
                                   message |-> data.val.message])
                  /\ \/ resp' = [route |-> "chat", status |-> 200,
                                 client |-> c, data |-> data,
                                 assistant |-> TRUE, generated |-> fresh,
                                 session_id |-> session_id]
                     \/ resp' = [route |-> "chat", status |-> 500,
                                 client |-> c, data |-> data,
                                 assistant |-> TRUE]

\* ---------------------------------------------------------------- detector threads
Threads == 1..NumThreads

\* a request thread calls detect_disease
Enter(t) ==
    /\ pc[t] = "idle"
    /\ pc' = [pc EXCEPT ![t] = "load_model"]
    /\ UNCHANGED <<files, rows, processor, model, loads, uuids,
                   treatVars, chatVars, resp>>

\* load_model, line 22: if processor is None or model is None
CheckLoaded(t) ==
    /\ pc[t] = "load_model"
    /\ pc' = [pc EXCEPT ![t] = IF NeedsLoad THEN "from_pretrained_processor"
                                            ELSE "preprocess"]
    /\ UNCHANGED <<files, rows, processor, model, loads, uuids,
                   treatVars, chatVars, resp>>

\* load_model, line 24: the processor is loaded and assigned, or the load raises
LoadProcessor(t) ==
    /\ pc[t] = "from_pretrained_processor"
    /\ \/ /\ processor' = TRUE
          /\ pc' = [pc EXCEPT ![t] = "from_pretrained_model"]
       \/ /\ processor' = processor
          /\ pc' = [pc EXCEPT ![t] = "idle"]
    /\ UNCHANGED <<files, rows, model, loads, uuids,
                   treatVars, chatVars, resp>>

\* load_model, lines 25-27: the model is loaded and assigned, or the load raises
LoadModel(t) ==
    /\ pc[t] = "from_pretrained_model"
    /\ \/ /\ model' = TRUE
          /\ loads' = loads + 1
          /\ pc' = [pc EXCEPT ![t] = "preprocess"]
       \/ /\ UNCHANGED <<model, loads>>
          /\ pc' = [pc EXCEPT ![t] = "idle"]
    /\ UNCHANGED <<files, rows, processor, uuids, treatVars, chatVars, resp>>

\* detect_disease, lines 54-77: the rest of the call, with the loaded objects
Infer(t) ==
    /\ pc[t] = "preprocess"
    /\ pc' = [pc EXCEPT ![t] = "idle"]
    /\ UNCHANGED <<files, rows, processor, model, loads, uuids,
                   treatVars, chatVars, resp>>

\* ---------------------------------------------------------------- specifications
Init ==
    /\ files = {}
    /\ rows = <<>>
    /\ processor = FALSE
    /\ model = FALSE
    /\ loads = 0
    /\ uuids = 0
    /\ cache = <<>>
    /\ calls = [l \in Labels |-> 0]
    /\ lastText = [l \in Labels |-> None]
    /\ othersSince = [l \in Labels |-> {}]
    /\ session = [c \in Clients |-> None]
    /\ chatLog = <<>>
    /\ pc = [t \in Threads |-> "idle"]
    /\ resp = [route |-> "none", status |-> 0]

\* uploads and the queries on their results, one request at a time
NextUpload == UploadImage \/ History \/ GetResults \/ GetResult
SpecUpload == Init /\ [][NextUpload]_vars

\* treatment requests, one at a time
NextTreatment == GetTreatment
SpecTreatment == Init /\ [][NextTreatment]_vars

\* chat requests, one at a time
NextChat == HandleChat
SpecChat == Init /\ [][NextChat]_vars

\* request threads inside detect_disease, interleaved
NextDetect ==
    \E t \in Threads :
        Enter(t) \/ CheckLoaded(t) \/ LoadProcessor(t) \/ LoadModel(t) \/ Infer(t)
SpecDetect == Init /\ [][NextDetect]_vars

\* ---------------------------------------------------------------- properties
DetectorFailPoints == { "load_processor", "load_model", "preprocess", "config" }

\* C1: GET /api/result/<id> for an id that has no row answers 404.
C1_AbsentResultIs404 ==
    (resp.route = "result" /\ resp.result_id \notin 1..Len(rows))
        => resp.status = 404

\* C2: when detect_disease raises in an upload whose file was saved, the
\* answer is 500, the file saved by the request is gone from the upload
\* directory and the rows are unchanged.
C2_DetectorFailureCleansUp ==
    [][(resp'.route = "upload" /\ resp'.hasFile
          /\ resp'.detector
          /\ "raised" \in DOMAIN resp'
          /\ resp'.raised \in DetectorFailPoints)
        => /\ resp'.status = 500
           /\ resp'.image_path \notin files'
           /\ rows' = rows]_vars

C2_Witness ==
    /\ resp.route = "upload" /\ resp.status = 500
    /\ "raised" \in DOMAIN resp /\ resp.raised = "preprocess"
    /\ Len(rows) >= 1
    /\ resp.image_path \notin files

\* the extension rule in the words of the claim: the text after the last '.',
\* case-insensitively, is one of png, jpg, jpeg, gif
ExtensionAllowed(name) ==
    /\ \E i \in 1..Len(name) : name[i] = "."
    /\ \E ext \in ALLOWED_EXTENSIONS :
          /\ Len(name) > Len(ext)
          /\ name[Len(name) - Len(ext)] = "."
          /\ \A i \in 1..Len(ext) :
                LowerChar(name[Len(name) - Len(ext) + i]) = ext[i]

\* C3: an upload with no file part, an empty file name, or an extension
\* outside {png, jpg, jpeg, gif} answers 400, leaves the upload directory and
\* the rows unchanged and does not call the detector.
C3_RejectedUploadChangesNothing ==
    [][(resp'.route = "upload"
          /\ (~resp'.hasFile \/ resp'.filename = <<>>
                \/ ~ExtensionAllowed(resp'.filename)))
        => /\ resp'.status = 400
           /\ files' = files
           /\ rows' = rows
           /\ ~resp'.detector
           /\ <<processor', model', loads'>> = <<processor, model, loads>>]_vars

C3_Witness ==
    /\ resp.route = "upload" /\ resp.status = 400
    /\ resp.filename = <<"a",".","p","n","g",".","t","x","t">>
    /\ Len(rows) >= 1

RequestedLabel(r, d) ==
    /\ r.route = "get_treatment"
    /\ r.data.kind = "object"
    /\ "disease" \in DOMAIN r.data.val
    /\ r.data.val.disease = d

\* C4 as stated: once a request for a label has been answered, every later
\* request for that label, whatever was requested in between, is served from
\* the cache without invoking the service and carries the same text.
C4_SecondRequestNeverInvokes ==
    [][\A d \in Labels :
          (RequestedLabel(resp', d) /\ lastText[d] # None)
            => /\ calls'[d] = calls[d]
               /\ ~resp'.service
               /\ resp'.status = 200
               /\ resp'.treatment = lastText[d]]_vars

\* C4 amended: a request for a label that was answered 200 before, with fewer
\* than MAXSIZE distinct other labels requested since that answer, is served
\* from the cache without invoking the service and carries the same text.
C4_SecondRequestWithinCapacity ==
    [][\A d \in Labels :
          (RequestedLabel(resp', d) /\ lastText[d] # None
             /\ Cardinality(othersSince[d]) < MAXSIZE)
            => /\ calls'[d] = calls[d]
               /\ ~resp'.service
               /\ resp'.status = 200
               /\ resp'.treatment = lastText[d]]_vars

C4_Witness ==
    \E d \in Labels :
        /\ RequestedLabel(resp, d)
        /\ resp.status = 200 /\ ~resp.service
        /\ calls[d] = 1
        /\ Len(cache) = MAXSIZE
        /\ \E l \in Labels \ {d} : d \in othersSince[l] /\ calls[l] = 1

IsListing == resp.route \in {"history", "results"}

\* the rows of the store that a listing did not return
NotReturned == { r \in Range(rows) : r \notin Range(resp.results) }

ListingIsLatest ==
    /\ Len(resp.results) <= LIMIT
    /\ Range(resp.results) \subseteq Range(rows)
    /\ Len(resp.results) = LIMIT \/ NotReturned = {}
    /\ \A r \in NotReturned : \A i \in 1..Len(resp.results) :
          r.timestamp <= resp.results[i].timestamp

\* C5 as stated: a listing returns at most LIMIT rows, the rows of greatest
\* timestamp, consecutive rows in strictly descending timestamp order.
C5_ListingStrictlyDescending ==
    IsListing =>
        /\ ListingIsLatest
        /\ \A i \in 1..(Len(resp.results) - 1) :
              resp.results[i].timestamp > resp.results[i + 1].timestamp

\* C5 amended: a listing returns at most LIMIT rows, the rows of greatest
\* timestamp, consecutive rows in descending timestamp order, where rows of
\* equal timestamp may follow each other.
C5_ListingDescending ==
    IsListing =>
        /\ ListingIsLatest
        /\ \A i \in 1..(Len(resp.results) - 1) :
              resp.results[i].timestamp >= resp.results[i + 1].timestamp

C5_Witness ==
    /\ resp.route = "results"
    /\ Len(rows) > LIMIT
    /\ Len(resp.results) = LIMIT
    /\ resp.results[1].timestamp > resp.results[2].timestamp
    /\ rows[1].timestamp < rows[Len(rows)].timestamp

\* C6: a successful upload answers 200 and has added one row whose
\* image_path, prediction and confidence are those of the response; the
\* prediction is in the label vocabulary and the confidence is in [0,1].
C6_SuccessfulUploadRow ==
    (resp.route = "upload" /\ resp.status = 200)
        => /\ Len(rows) >= 1
           /\ resp.id = Len(rows)
           /\ rows[Len(rows)].image_path = resp.image_path
           /\ rows[Len(rows)].prediction = resp.prediction
           /\ rows[Len(rows)].confidence = resp.confidence
           /\ resp.prediction \in Vocabulary
           /\ resp.confidence \in 0..1000

\* every session id that has appeared so far
SeenIds ==
    { session[c] : c \in Clients }
        \cup { chatLog[i].session_id : i \in 1..Len(chatLog) }
        \cup KnownIds

\* C7: in a chat answered 200 the session_id of the response is the id that
\* was passed to the chat assistant with the message; the id of the request
\* body takes precedence over the one the server holds; without either the
\* server generates a fresh id and keeps it for the client.
C7_SessionIdRoutesChat ==
    [][(resp'.route = "chat" /\ resp'.status = 200)
        => LET c == resp'.client
               data == resp'.data
               passed == chatLog'[Len(chatLog')]
           IN  /\ Len(chatLog') = Len(chatLog) + 1
               /\ passed.session_id = resp'.session_id
               /\ passed.message = data.val.message
               /\ "session_id" \in DOMAIN data.val
                    => resp'.session_id = data.val.session_id
               /\ ("session_id" \notin DOMAIN data.val /\ session[c] # None)
                    => resp'.session_id = session[c]
               /\ ("session_id" \notin DOMAIN data.val /\ session[c] = None)
                    => /\ resp'.session_id \notin SeenIds
                       /\ session'[c] = resp'.session_id]_vars

C7_Witness ==
    /\ resp.route = "chat" /\ resp.status = 200
    /\ Len(chatLog) = 2
    /\ "session_id" \notin DOMAIN resp.data.val
    /\ chatLog[1].session_id = Uuid(1)
    /\ chatLog[2].session_id = Uuid(1)
    /\ session[resp.client] = Uuid(1)
    /\ ~resp.generated

\* C8: a get_treatment body without a usable disease field, and a chat body
\* without a usable message field, answer 400 and the service is not called.
C8_MissingFieldIs400 ==
    /\ (resp.route = "get_treatment"
          /\ (resp.data.kind # "object" \/ "disease" \notin DOMAIN resp.data.val))
        => (resp.status = 400 /\ ~resp.service)
    /\ (resp.route = "chat"
          /\ (resp.data.kind # "object" \/ "message" \notin DOMAIN resp.data.val))
        => (resp.status = 400 /\ ~resp.assistant)

\* C9: the load of processor and model is executed at most once, also when
\* detect_disease calls interleave.
C9_LoadedAtMostOnce == loads <= 1

\* C10: the files of the upload directory and the rows correspond one to one.
C10_FilesMatchRows ==
    /\ files = { rows[i].image_path : i \in 1..Len(rows) }
    /\ \A i, j \in 1..Len(rows) :
          rows[i].image_path = rows[j].image_path => i = j

====
